---- MODULE Spec2Model ----
(***************************************************************************)
(* A model of the goose provider layer: the token tracker                  *)
(* (agents/token_tracker.rs) and the Anthropic and Groq providers          *)
(* (providers/anthropic.rs, providers/groq.rs).                            *)
(***************************************************************************)
EXTENDS Integers, Sequences, FiniteSets, TLC

VARIABLES
    tracker,        \* the TokenTracker struct
    last,           \* the last tracker call: its name, return value, pre-state
    hist,           \* ghost: what update_usage was given since new()/reset()
    fired,          \* ghost: thresholds whose message was returned since new()/reset()
    fired_before,   \* ghost: thresholds whose message was returned before the last reset()
    http,           \* the HTTP response a provider call receives: provider, status, body
    post_out,       \* what post() returned for it
    cfg,            \* the provider's model name and the CLAUDE_THINKING_ENABLED toggle
    complete_out,   \* AnthropicProvider::complete: the request sent and the value returned
    stream_out,     \* AnthropicProvider::stream: the request sent and the value returned
    stream_state,   \* the returned stream: "open", "failed" (error yielded), "done"
    decoded,        \* ghost: what the frame decoder produced, in order
    received,       \* what the stream's consumer was given, in order
    fetch_out,      \* what fetch_supported_models_async returned
    lock,           \* the SharedTokenTracker's RwLock: the turn holding the write guard
    turns,          \* the concurrent turns sharing the tracker: position, usage, warning
    updated         \* ghost: the turns whose update_usage was applied, in order

trackerVars == <<tracker, last, hist, fired, fired_before>>

streamVars == <<cfg, complete_out, stream_out, stream_state, decoded, received>>

providerVars == <<http, post_out, streamVars, fetch_out>>

sharedVars == <<lock, turns, updated>>

vars == <<trackerVars, providerVars, sharedVars>>

----------------------------------------------------------------------------
(* Option<T> *)

None == [some |-> FALSE]

Some(x) == [some |-> TRUE, v |-> x]

IsSome(o) == o.some

IsNone(o) == ~o.some

\* A part of the model that takes no part in the specification at hand
Idle == [k |-> "idle"]

----------------------------------------------------------------------------
(* Bounds of the model *)

\* update_usage calls explored between two reset() calls
MaxUpdates == 3

\* Token counts a provider reports for the input and output fields
FieldDeltas == {None, Some(1)}

\* Token counts a provider reports for the total field
TotalDeltas == {None, Some(40), Some(50), Some(850)}

\* Context limits given to set_context_limit
Limits == {0, 100, 1000}

----------------------------------------------------------------------------
(* Usage (providers/base.rs): three optional counts combined additively *)

UsageFields == {"input_tokens", "output_tokens", "total_tokens"}

UsageDefault ==
    [input_tokens |-> None, output_tokens |-> None, total_tokens |-> None]

\* sum_optionals that keeps the left side when it is known
sum_optionals_keep_first(a, b) == IF IsSome(a) THEN a ELSE b

\* One field of Usage + Usage: unknown only when both sides are unknown,
\* otherwise an unknown side counts as zero.
sum_optionals(a, b) ==
    IF IsNone(a) /\ IsNone(b) THEN None
    ELSE Some((IF IsSome(a) THEN a.v ELSE 0) + (IF IsSome(b) THEN b.v ELSE 0))

UsageAdd(a, b) ==
    [f \in UsageFields |-> sum_optionals(a[f], b[f])]

UsageDeltas ==
    [input_tokens : FieldDeltas, output_tokens : FieldDeltas,
     total_tokens : TotalDeltas]

----------------------------------------------------------------------------
(* f64 values as the tracker computes them.  A finite value is held as the  *)
(* exact ratio num/den (den > 0) of the integers it was computed from,      *)
(* with `below` telling that binary64 rounding left the value just under   *)
(* that ratio.  The quotient used/limit is rounded to 53 bits and the      *)
(* product with 100.0 is rounded again; for counts that fit an i32 the     *)
(* result differs from the exact ratio by far less than the ratio's        *)
(* distance to the next integer, so it can only fall under an integer when *)
(* the ratio is that integer k: then it does exactly when k/100 lies in    *)
(* the lower part [1, 1.28] of its binade and rounding k/100 to 53 bits    *)
(* loses between 9/25 and 12/25 of a unit in the last place.               *)

I32Max == 2147483647

I32Min == -I32Max - 1

RECURSIVE Pow2(_)
Pow2(n) == IF n = 0 THEN 1 ELSE 2 * Pow2(n - 1)

\* For k >= 100: the e >= 0 with 100 * 2^e <= k < 200 * 2^e
RECURSIVE BinadeUp(_, _)
BinadeUp(k, e) == IF 200 * Pow2(e) <= k THEN BinadeUp(k, e + 1) ELSE e

\* For 0 < k < 100: the s >= 1 with 100 <= k * 2^s < 200
RECURSIVE BinadeDown(_, _)
BinadeDown(k, s) == IF k * Pow2(s) < 100 THEN BinadeDown(k, s + 1) ELSE s

\* Whether ((k as f64) / 100.0) * 100.0 is below k, for an integer k > 0
ProductBelow(k) ==
    LET up == k >= 100
        e == IF up THEN BinadeUp(k, 0) ELSE -BinadeDown(k, 1)
        low == IF up THEN k <= 128 * Pow2(e) ELSE k * Pow2(-e) <= 128
        \* the part of k/100 * 2^(52-e) lost by rounding down, in 25ths
        r == ((k % 25) * (Pow2((50 - e) % 20) % 25)) % 25
    IN  low /\ r >= 9 /\ r <= 12

FFin(n, d, below) == [k |-> "fin", num |-> n, den |-> d, below |-> below]

FInf == [k |-> "inf"]

FNegInf == [k |-> "neginf"]

FNaN == [k |-> "nan"]

\* (a as f64) / (b as f64) for an integer a >= 0 and a usize b
FDiv(a, b) ==
    IF b # 0 THEN FFin(a, b, FALSE)
    ELSE IF a > 0 THEN FInf
    ELSE IF a < 0 THEN FNegInf
    ELSE FNaN

\* x * 100.0 for a quotient x of FDiv
FTimes100(x) ==
    IF x.k = "fin"
    THEN LET n == x.num * 100 IN
         FFin(n, x.den, n > 0 /\ n % x.den = 0 /\ ProductBelow(n \div x.den))
    ELSE x

\* x >= c for an integer constant c; every comparison with NaN is false
FGe(x, c) ==
    CASE x.k = "fin" ->
            IF x.below THEN x.num > c * x.den ELSE x.num >= c * x.den
      [] x.k = "inf" -> TRUE
      [] OTHER -> FALSE

\* x > c for an integer constant c
FGt(x, c) ==
    CASE x.k = "fin" -> x.num > c * x.den
      [] x.k = "inf" -> TRUE
      [] OTHER -> FALSE

\* x as i32: truncation toward zero, saturating; NaN becomes 0
AsI32(x) ==
    CASE x.k = "fin" ->
            LET q == IF x.num >= 0 THEN x.num \div x.den
                     ELSE -((-x.num) \div x.den)
                t == IF x.below THEN q - 1 ELSE q
            IN  IF t > I32Max THEN I32Max ELSE IF t < I32Min THEN I32Min ELSE t
      [] x.k = "inf" -> I32Max
      [] x.k = "neginf" -> I32Min
      [] OTHER -> 0

----------------------------------------------------------------------------
(* TokenTracker *)

new ==
    [current_usage |-> UsageDefault,
     context_limit |-> None,
     warning_80_shown |-> FALSE,
     warning_90_shown |-> FALSE]

update_usage_replace(t, usage) ==
    [t EXCEPT !.current_usage = usage]

update_usage(t, usage) ==
    [t EXCEPT !.current_usage = UsageAdd(t.current_usage, usage)]

set_context_limit(t, limit) ==
    [t EXCEPT !.context_limit = Some(limit)]

usage_percentage_inverted(t) ==
    IF IsSome(t.current_usage.total_tokens) /\ IsSome(t.context_limit)
    THEN Some(FTimes100(FDiv(t.context_limit.v, t.current_usage.total_tokens.v)))
    ELSE None

usage_percentage(t) ==
    IF IsSome(t.current_usage.total_tokens) /\ IsSome(t.context_limit)
    THEN Some(FTimes100(FDiv(t.current_usage.total_tokens.v, t.context_limit.v)))
    ELSE None

token_counts(t) ==
    IF IsSome(t.current_usage.total_tokens) /\ IsSome(t.context_limit)
    THEN Some(<<t.current_usage.total_tokens.v, t.context_limit.v>>)
    ELSE None

\* format!("WARNING: Approaching context limit! Used {} of {} tokens ({}%)", ..)
Msg90(used, limit, pct) ==
    [fmt |-> "WARNING: Approaching context limit! Used {} of {} tokens ({}%)",
     args |-> <<used, limit, pct>>]

\* format!("Context usage at {}% ({} of {} tokens)", ..)
Msg80(pct, used, limit) ==
    [fmt |-> "Context usage at {}% ({} of {} tokens)",
     args |-> <<pct, used, limit>>]

\* check_warning that returns its messages without setting their flags
check_warning_forgets_flag(t) ==
    LET p == usage_percentage(t) IN
    IF IsNone(p) THEN [t |-> t, ret |-> None]
    ELSE IF FGe(p.v, 90) /\ ~t.warning_90_shown THEN
        LET c == token_counts(t).v IN
        [t |-> t, ret |-> Some(Msg90(c[1], c[2], AsI32(p.v)))]
    ELSE IF FGe(p.v, 80) /\ ~t.warning_80_shown THEN
        LET c == token_counts(t).v IN
        [t |-> t, ret |-> Some(Msg80(AsI32(p.v), c[1], c[2]))]
    ELSE [t |-> t, ret |-> None]

\* check_warning with the thresholds compared by > instead of >=
check_warning_strict(t) ==
    LET p == usage_percentage(t) IN
    IF IsNone(p) THEN [t |-> t, ret |-> None]
    ELSE IF FGt(p.v, 90) /\ ~t.warning_90_shown THEN
        LET c == token_counts(t).v IN
        [t |-> [t EXCEPT !.warning_90_shown = TRUE],
         ret |-> Some(Msg90(c[1], c[2], AsI32(p.v)))]
    ELSE IF FGt(p.v, 80) /\ ~t.warning_80_shown THEN
        LET c == token_counts(t).v IN
        [t |-> [t EXCEPT !.warning_80_shown = TRUE],
         ret |-> Some(Msg80(AsI32(p.v), c[1], c[2]))]
    ELSE [t |-> t, ret |-> None]

\* The tracker after the call and the value returned
check_warning(t) ==
    LET p == usage_percentage(t) IN
    IF IsNone(p) THEN [t |-> t, ret |-> None]
    ELSE IF FGe(p.v, 90) /\ ~t.warning_90_shown THEN
        LET t1 == [t EXCEPT !.warning_90_shown = TRUE]
            c == token_counts(t1)
        IN  IF IsNone(c) THEN [t |-> t1, ret |-> None]
            ELSE [t |-> t1, ret |-> Some(Msg90(c.v[1], c.v[2], AsI32(p.v)))]
    ELSE IF FGe(p.v, 80) /\ ~t.warning_80_shown THEN
        LET t1 == [t EXCEPT !.warning_80_shown = TRUE]
            c == token_counts(t1)
        IN  IF IsNone(c) THEN [t |-> t1, ret |-> None]
            ELSE [t |-> t1, ret |-> Some(Msg80(AsI32(p.v), c.v[1], c.v[2]))]
    ELSE [t |-> t, ret |-> None]

reset_all(t) == new

reset(t) ==
    [t EXCEPT !.current_usage = UsageDefault,
              !.warning_80_shown = FALSE,
              !.warning_90_shown = FALSE]

----------------------------------------------------------------------------
(* Which threshold a returned message belongs to *)

Is90(ret) == IsSome(ret) /\ ret.v.fmt = Msg90(0, 0, 0).fmt

Is80(ret) == IsSome(ret) /\ ret.v.fmt = Msg80(0, 0, 0).fmt

Threshold(ret) ==
    IF Is90(ret) THEN {90} ELSE IF Is80(ret) THEN {80} ELSE {}

----------------------------------------------------------------------------
(* The tracker's calls *)

HistInit ==
    [n |-> 0,
     sum |-> [f \in UsageFields |-> 0],
     seen |-> [f \in UsageFields |-> FALSE]]

\* What the call before the last one was, as far as the claims need it
Prev(l) ==
    IF l.op # "check_warning" THEN "other"
    ELSE IF Is90(l.ret) THEN "check_90"
    ELSE IF Is80(l.ret) THEN "check_80"
    ELSE "check_none"

Call(op, ret) ==
    [op |-> op, ret |-> ret, pre |-> tracker, pre_fired |-> fired,
     prev |-> Prev(last)]

\* The tracker is not shared: no lock, no turn
SharedIdle ==
    /\ lock = Idle
    /\ turns = <<>>
    /\ updated = <<>>

\* The tracker after construction, before any call
TrackerNew ==
    /\ tracker = new
    /\ last = [op |-> "new", ret |-> None, pre |-> new, pre_fired |-> {},
               prev |-> "other"]
    /\ hist = HistInit
    /\ fired = {}
    /\ fired_before = {}
    /\ SharedIdle

\* No provider call in progress
StreamIdle ==
    /\ cfg = Idle
    /\ complete_out = Idle
    /\ stream_out = Idle
    /\ stream_state = "none"
    /\ decoded = <<>>
    /\ received = <<>>

ProviderIdle ==
    /\ http = Idle
    /\ post_out = Idle
    /\ StreamIdle
    /\ fetch_out = Idle

InitTracker ==
    /\ TrackerNew
    /\ ProviderIdle

UpdateUsage ==
    /\ hist.n < MaxUpdates
    /\ \E usage \in UsageDeltas :
        /\ tracker' = update_usage(tracker, usage)
        /\ hist' = [n |-> hist.n + 1,
                    sum |-> [f \in UsageFields |->
                                hist.sum[f] + (IF IsSome(usage[f]) THEN usage[f].v ELSE 0)],
                    seen |-> [f \in UsageFields |-> hist.seen[f] \/ IsSome(usage[f])]]
    /\ last' = Call("update_usage", None)
    /\ UNCHANGED <<fired, fired_before, providerVars, sharedVars>>

SetContextLimit ==
    /\ \E limit \in Limits : tracker' = set_context_limit(tracker, limit)
    /\ last' = Call("set_context_limit", None)
    /\ UNCHANGED <<hist, fired, fired_before, providerVars, sharedVars>>

CheckWarning ==
    LET r == check_warning(tracker) IN
    /\ tracker' = r.t
    /\ last' = Call("check_warning", r.ret)
    /\ fired' = fired \cup Threshold(r.ret)
    /\ UNCHANGED <<hist, fired_before, providerVars, sharedVars>>

Reset ==
    /\ tracker' = reset(tracker)
    /\ last' = Call("reset", None)
    /\ hist' = HistInit
    /\ fired' = {}
    /\ fired_before' = fired_before \cup fired
    /\ UNCHANGED <<providerVars, sharedVars>>

NextTracker ==
    \/ UpdateUsage
    \/ SetContextLimit
    \/ CheckWarning
    \/ Reset

Spec == InitTracker /\ [][NextTracker]_vars

----------------------------------------------------------------------------
(* Claims about the token tracker, checked under Spec *)

\* The total and the limit of a tracker state, when both are known
Used(t) == t.current_usage.total_tokens.v

Limit(t) == t.context_limit.v

Known(t) == IsSome(t.current_usage.total_tokens) /\ IsSome(t.context_limit)

\* floor(100 * used / limit) for limit > 0
FloorPct(t) == (100 * Used(t)) \div Limit(t)

\* C1: a check_warning() made with no flag set and 80% <= pct < 90% returns
\* the 80% message (floored percentage, used, limit); the check_warning()
\* that immediately follows a returned 80% message returns None; and once the
\* 80% message was returned, a check_warning() made at pct >= 90% with the
\* 90% message not yet returned returns the 90% message (used, limit, and
\* the percentage as an integer, which binary64 rounding can leave one under
\* the floor).  With limit = 1000: used = 850 gives the 80% message, then
\* None, and used = 950 the 90% one.
C1_OneShotWarnings ==
    last.op = "check_warning" =>
        LET pre == last.pre IN
        /\ ( /\ Known(pre) /\ Limit(pre) > 0
             /\ ~pre.warning_80_shown /\ ~pre.warning_90_shown
             /\ 100 * Used(pre) >= 80 * Limit(pre)
             /\ 100 * Used(pre) < 90 * Limit(pre) )
           => last.ret = Some(Msg80(FloorPct(pre), Used(pre), Limit(pre)))
        /\ last.prev = "check_80" => last.ret = None
        /\ ( /\ Known(pre) /\ Limit(pre) > 0
             /\ 80 \in last.pre_fired /\ 90 \notin last.pre_fired
             /\ 100 * Used(pre) >= 90 * Limit(pre) )
           => \E pct \in {FloorPct(pre) - 1, FloorPct(pre)} :
                  last.ret = Some(Msg90(Used(pre), Limit(pre), pct))

\* C1 witness: the example's last step: limit 1000, the 80% message was
\* returned at 850, and the check at 950 has just returned the 90% message.
C1_Witness ==
    /\ last.op = "check_warning"
    /\ 80 \in last.pre_fired
    /\ tracker.context_limit = Some(1000)
    /\ tracker.current_usage.total_tokens = Some(950)
    /\ last.ret = Some(Msg90(950, 1000, 95))

\* C2 (as claimed): between two reset() calls a warning flag that is true
\* stays true, and once check_warning() has returned the 90% message every
\* later check_warning() returns None.
C2_MonotoneWarnings ==
    /\ last.op \in {"update_usage", "set_context_limit", "check_warning"} =>
        /\ last.pre.warning_80_shown => tracker.warning_80_shown
        /\ last.pre.warning_90_shown => tracker.warning_90_shown
    /\ (last.op = "check_warning" /\ 90 \in last.pre_fired) => last.ret = None

\* C3: since new() or the last reset(), each field of current_usage is the
\* sum of the values update_usage was given for it, and it is unknown
\* exactly when every call left it unknown.
C3_FieldwiseSum ==
    \A f \in UsageFields :
        /\ IsNone(tracker.current_usage[f]) <=> ~hist.seen[f]
        /\ IsSome(tracker.current_usage[f]) =>
               tracker.current_usage[f].v = hist.sum[f]

\* C3 witness: three updates, of which exactly one gave input_tokens, none
\* gave output_tokens, and total_tokens adds up to 850 + 50 + 50.
C3_Witness ==
    /\ last.op = "update_usage"
    /\ hist.n = 3
    /\ hist.seen["input_tokens"] /\ hist.sum["input_tokens"] = 1
    /\ ~hist.seen["output_tokens"]
    /\ tracker.current_usage.total_tokens = Some(950)

\* C4 (as claimed): usage_percentage() is None exactly when total_tokens is
\* unknown or context_limit is unset, and in every other state, a limit of 0
\* included, it is the number 100 * used / limit.
C4_PercentageAnyLimit ==
    LET p == usage_percentage(tracker) IN
    /\ IsNone(p) <=> ~Known(tracker)
    /\ Known(tracker) =>
        /\ p.v.k = "fin"
        /\ p.v.num * Limit(tracker) = 100 * Used(tracker) * p.v.den

\* C4 (amended): usage_percentage() is None exactly when total_tokens is
\* unknown or context_limit is unset; with a limit > 0 it is the number
\* 100 * used / limit; with a limit of 0 it is Some of no number: +infinity
\* when used > 0 and NaN when used = 0.
C4_PercentagePositiveLimit ==
    LET p == usage_percentage(tracker) IN
    /\ IsNone(p) <=> ~Known(tracker)
    /\ (Known(tracker) /\ Limit(tracker) > 0) =>
        /\ p.v.k = "fin"
        /\ p.v.num * Limit(tracker) = 100 * Used(tracker) * p.v.den
    /\ (Known(tracker) /\ Limit(tracker) = 0) =>
        p.v = IF Used(tracker) > 0 THEN FInf ELSE FNaN

\* C4 witness: a limit of 0 set through set_context_limit(0) with a known,
\* positive total.
C4_Witness ==
    /\ tracker.context_limit = Some(0)
    /\ tracker.current_usage.total_tokens = Some(40)
    /\ usage_percentage(tracker) = Some(FInf)

\* C5: reset() leaves all three usage fields unknown and both flags false and
\* keeps context_limit; and with the limit kept, a check_warning() made at
\* 80% or more before any message was returned since the reset returns a
\* message, whatever was returned before the reset.
C5_ResetKeepsLimit ==
    /\ last.op = "reset" =>
        /\ tracker.current_usage = UsageDefault
        /\ ~tracker.warning_80_shown /\ ~tracker.warning_90_shown
        /\ tracker.context_limit = last.pre.context_limit
    /\ ( /\ last.op = "check_warning" /\ last.pre_fired = {}
         /\ Known(last.pre) /\ Limit(last.pre) > 0
         /\ 100 * Used(last.pre) >= 80 * Limit(last.pre) )
       => IsSome(last.ret)

\* C5 witness: the 80% message returned again after a reset, against the
\* limit set before the reset.
C5_Witness ==
    /\ last.op = "check_warning"
    /\ Is80(last.ret)
    /\ 80 \in fired_before
    /\ hist.n = 1
    /\ tracker.context_limit = Some(1000)

----------------------------------------------------------------------------
(* Strings, as sequences of characters, with the operations the providers   *)
(* apply to them                                                           *)

UpperCase == <<"A", "B", "C", "D", "E", "F", "G", "H", "I", "J", "K", "L", "M", "N", "O", "P", "Q", "R", "S", "T", "U", "V", "W", "X", "Y", "Z">>

LowerCase == <<"a", "b", "c", "d", "e", "f", "g", "h", "i", "j", "k", "l", "m", "n", "o", "p", "q", "r", "s", "t", "u", "v", "w", "x", "y", "z">>

Digits == <<"0", "1", "2", "3", "4", "5", "6", "7", "8", "9">>

IndexOf(c, seq) == CHOOSE i \in 1..Len(seq) : seq[i] = c

InSeq(c, seq) == \E i \in 1..Len(seq) : seq[i] = c

\* The grave accent character (byte 96), which no TLA+ string can hold: the
\* one character of the model's strings that is written by its code point
Backtick == "U+0060"

\* The byte of an ASCII character, the order String's Ord compares by
CharCode(c) ==
    IF InSeq(c, UpperCase) THEN 64 + IndexOf(c, UpperCase)
    ELSE IF InSeq(c, LowerCase) THEN 96 + IndexOf(c, LowerCase)
    ELSE IF InSeq(c, Digits) THEN 47 + IndexOf(c, Digits)
    ELSE CASE c = " " -> 32 [] c = "-" -> 45 [] c = "." -> 46
           [] c = "/" -> 47 [] c = "_" -> 95 [] c = Backtick -> 96

\* char::to_lowercase on ASCII
LowerChar(c) ==
    IF InSeq(c, UpperCase) THEN LowerCase[IndexOf(c, UpperCase)] ELSE c

\* str::to_lowercase
to_lowercase(str) == [i \in 1..Len(str) |-> LowerChar(str[i])]

\* str::contains(pattern)
contains(str, pat) ==
    \E i \in 0..(Len(str) - Len(pat)) : SubSeq(str, i + 1, i + Len(pat)) = pat

\* str::starts_with(prefix)
starts_with(str, prefix) ==
    Len(str) >= Len(prefix) /\ SubSeq(str, 1, Len(prefix)) = prefix

TooLong == <<"t", "o", "o", " ", "l", "o", "n", "g">>

TooMany == <<"t", "o", "o", " ", "m", "a", "n", "y">>

UnknownError == <<"U", "n", "k", "n", "o", "w", "n", " ", "e", "r", "r", "o", "r">>

----------------------------------------------------------------------------
(* serde_json::Value *)

JNull == [t |-> "null"]

JStr(str) == [t |-> "str", s |-> str]

JNum(n) == [t |-> "num", n |-> n]

JArr(seq) == [t |-> "arr", a |-> seq]

\* An object is a function from its keys to its values
JObj(f) == [t |-> "obj", o |-> f]

NoFields == [key \in {} |-> JNull]

\* Value::get(key): the member of an object, None for a missing key or a
\* value that is no object
Get(value, key) ==
    IF value.t = "obj" /\ key \in DOMAIN value.o THEN Some(value.o[key]) ELSE None

as_str(value) == IF value.t = "str" THEN Some(value.s) ELSE None

as_array(value) == IF value.t = "arr" THEN Some(value.a) ELSE None

as_object(value) == IF value.t = "obj" THEN Some(value.o) ELSE None

\* Option::and_then over one of the accessors above
GetStr(value, key) ==
    LET m == Get(value, key) IN IF IsSome(m) THEN as_str(m.v) ELSE None

GetArray(value, key) ==
    LET m == Get(value, key) IN IF IsSome(m) THEN as_array(m.v) ELSE None

----------------------------------------------------------------------------
(* reqwest::StatusCode and ProviderError *)

OK == 200

BAD_REQUEST == 400

UNAUTHORIZED == 401

FORBIDDEN == 403

PAYLOAD_TOO_LARGE == 413

TOO_MANY_REQUESTS == 429

INTERNAL_SERVER_ERROR == 500

SERVICE_UNAVAILABLE == 503

\* StatusCode::is_success
is_success(status) == status >= 200 /\ status < 300

ErrorKinds ==
    {"Authentication", "RateLimitExceeded", "ContextLengthExceeded",
     "ServerError", "RequestFailed", "UsageError"}

Ok(v) == [k |-> "Ok", v |-> v]

Err(kind, text) == [k |-> "Err", kind |-> kind, msg |-> text]

\* format!(fmt, args..)
Format(fmt, args) == [fmt |-> fmt, args |-> args]

----------------------------------------------------------------------------
(* AnthropicProvider::post and GroqProvider::post, from the response's      *)
(* status and its body parsed as JSON (None when it does not parse)        *)

\* AnthropicProvider::post comparing the message without to_lowercase()
anthropic_post_case_sensitive(status, payload) ==
    CASE status = OK ->
            IF IsSome(payload) THEN Ok(payload.v)
            ELSE Err("RequestFailed", Format("Response body is not valid JSON", <<>>))
      [] status \in {UNAUTHORIZED, FORBIDDEN} ->
            Err("Authentication",
                Format("Authentication failed. Please ensure your API keys are valid and have the required permissions. Status: {}. Response: {:?}",
                       <<status, payload>>))
      [] status = BAD_REQUEST ->
            LET error == IF IsSome(payload) THEN Get(payload.v, "error") ELSE None
                message == IF IsSome(error) THEN GetStr(error.v, "message") ELSE None
                error_msg == IF IsSome(message) THEN message.v ELSE UnknownError
            IN  IF IsSome(error) /\ (contains(error_msg, TooLong) \/ contains(error_msg, TooMany))
                THEN Err("ContextLengthExceeded", Format("{}", <<error_msg>>))
                ELSE Err("RequestFailed",
                         Format("Request failed with status: {}. Message: {}",
                                <<status, error_msg>>))
      [] status = TOO_MANY_REQUESTS ->
            Err("RateLimitExceeded", Format("{:?}", <<payload>>))
      [] status \in {INTERNAL_SERVER_ERROR, SERVICE_UNAVAILABLE} ->
            Err("ServerError", Format("{:?}", <<payload>>))
      [] OTHER ->
            Err("RequestFailed", Format("Request failed with status: {}", <<status>>))

anthropic_post(status, payload) ==
    CASE status = OK ->
            IF IsSome(payload) THEN Ok(payload.v)
            ELSE Err("RequestFailed", Format("Response body is not valid JSON", <<>>))
      [] status \in {UNAUTHORIZED, FORBIDDEN} ->
            Err("Authentication",
                Format("Authentication failed. Please ensure your API keys are valid and have the required permissions. Status: {}. Response: {:?}",
                       <<status, payload>>))
      [] status = BAD_REQUEST ->
            LET error == IF IsSome(payload) THEN Get(payload.v, "error") ELSE None
                message == IF IsSome(error) THEN GetStr(error.v, "message") ELSE None
                error_msg == IF IsSome(message) THEN message.v ELSE UnknownError
            IN  IF /\ IsSome(error)
                   /\ \/ contains(to_lowercase(error_msg), TooLong)
                      \/ contains(to_lowercase(error_msg), TooMany)
                THEN Err("ContextLengthExceeded", Format("{}", <<error_msg>>))
                ELSE Err("RequestFailed",
                         Format("Request failed with status: {}. Message: {}",
                                <<status, error_msg>>))
      [] status = TOO_MANY_REQUESTS ->
            Err("RateLimitExceeded", Format("{:?}", <<payload>>))
      [] status \in {INTERNAL_SERVER_ERROR, SERVICE_UNAVAILABLE} ->
            Err("ServerError", Format("{:?}", <<payload>>))
      [] OTHER ->
            Err("RequestFailed", Format("Request failed with status: {}", <<status>>))

\* GroqProvider::post without FORBIDDEN in the authentication arm
groq_post_401_only(status, response_payload) ==
    CASE status = OK ->
            IF IsSome(response_payload) THEN Ok(response_payload.v)
            ELSE Err("RequestFailed", Format("Response body is not valid JSON", <<>>))
      [] status = UNAUTHORIZED ->
            Err("Authentication",
                Format("Authentication failed. Please ensure your API keys are valid and have the required permissions. Status: {}. Response: {:?}",
                       <<status, response_payload>>))
      [] status = PAYLOAD_TOO_LARGE ->
            Err("ContextLengthExceeded", Format("{:?}", <<response_payload>>))
      [] status = TOO_MANY_REQUESTS ->
            Err("RateLimitExceeded", Format("{:?}", <<response_payload>>))
      [] status \in {INTERNAL_SERVER_ERROR, SERVICE_UNAVAILABLE} ->
            Err("ServerError", Format("{:?}", <<response_payload>>))
      [] OTHER ->
            Err("RequestFailed",
                Format("Provider request failed with status: {}. Payload: {:?}",
                       <<status, response_payload>>))

groq_post(status, response_payload) ==
    CASE status = OK ->
            IF IsSome(response_payload) THEN Ok(response_payload.v)
            ELSE Err("RequestFailed", Format("Response body is not valid JSON", <<>>))
      [] status \in {UNAUTHORIZED, FORBIDDEN} ->
            Err("Authentication",
                Format("Authentication failed. Please ensure your API keys are valid and have the required permissions. Status: {}. Response: {:?}",
                       <<status, response_payload>>))
      [] status = PAYLOAD_TOO_LARGE ->
            Err("ContextLengthExceeded", Format("{:?}", <<response_payload>>))
      [] status = TOO_MANY_REQUESTS ->
            Err("RateLimitExceeded", Format("{:?}", <<response_payload>>))
      [] status \in {INTERNAL_SERVER_ERROR, SERVICE_UNAVAILABLE} ->
            Err("ServerError", Format("{:?}", <<response_payload>>))
      [] OTHER ->
            Err("RequestFailed",
                Format("Provider request failed with status: {}. Payload: {:?}",
                       <<status, response_payload>>))

----------------------------------------------------------------------------
(* The responses post() is examined on *)

Providers == {"anthropic", "groq"}

Statuses ==
    {OK, 201, BAD_REQUEST, UNAUTHORIZED, FORBIDDEN, 404, PAYLOAD_TOO_LARGE,
     TOO_MANY_REQUESTS, INTERNAL_SERVER_ERROR, SERVICE_UNAVAILABLE}

\* {"error": {"message": message}}
ErrorBody(message) ==
    JObj("error" :> JObj("message" :> message))

\* Bodies whose error.message holds "too long" or "too many" in some case
BodyPromptTooLong == ErrorBody(JStr(<<"p", "r", "o", "m", "p", "t", " ", "i", "s", " ", "t", "o", "o", " ", "l", "o", "n", "g">>))

BodyTooManyMixedCase == ErrorBody(JStr(<<"T", "o", "o", " ", "M", "a", "n", "y", " ", "t", "o", "k", "e", "n", "s">>))

BodyTooLongUpperCase == ErrorBody(JStr(<<"I", "N", "P", "U", "T", " ", "T", "O", "O", " ", "L", "O", "N", "G">>))

ContextLengthBodies ==
    {BodyPromptTooLong, BodyTooManyMixedCase, BodyTooLongUpperCase}

\* Bodies that parse and hold no such message
BodyUnrelatedMessage == ErrorBody(JStr(<<"i", "n", "v", "a", "l", "i", "d", " ", "r", "e", "q", "u", "e", "s", "t">>))

BodyNearMiss == ErrorBody(JStr(<<"t", "o", "o", " ", "l", "o", "n", " ", "g", "t", "o", "o", " ", "m", "a", "n", " ", "y">>))

BodyNoMessage == JObj("error" :> JObj("type" :> JStr(<<"i", "n", "v", "a", "l", "i", "d", "_", "r", "e", "q", "u", "e", "s", "t", "_", "e", "r", "r", "o", "r">>)))

BodyMessageNotString == ErrorBody(JNum(7))

BodyErrorIsString == JObj("error" :> JStr(<<"p", "r", "o", "m", "p", "t", " ", "i", "s", " ", "t", "o", "o", " ", "l", "o", "n", "g">>))

BodyNoErrorObject == JObj("message" :> JStr(<<"p", "r", "o", "m", "p", "t", " ", "i", "s", " ", "t", "o", "o", " ", "l", "o", "n", "g">>))

BodyArray == JArr(<<JStr(<<"t", "o", "o", " ", "m", "a", "n", "y">>)>>)

BodyEmptyObject == JObj(NoFields)

BodyCompletion ==
    JObj("id" :> JStr(<<"m", "s", "g", "_", "1">>)
         @@ "model" :> JStr(<<"c", "l", "a", "u", "d", "e">>))

OtherBodies ==
    {BodyUnrelatedMessage, BodyNearMiss, BodyNoMessage, BodyMessageNotString,
     BodyErrorIsString, BodyNoErrorObject, BodyArray, BodyEmptyObject,
     BodyCompletion}

\* The body as response.json().await.ok() gives it: None when it does not parse
PostBodies == {None} \cup {Some(b) : b \in ContextLengthBodies \cup OtherBodies}

InitPost ==
    /\ TrackerNew
    /\ http \in [provider : Providers, status : Statuses, body : PostBodies]
    /\ post_out = Idle
    /\ StreamIdle
    /\ fetch_out = Idle

AnthropicPost ==
    /\ http.provider = "anthropic"
    /\ post_out = Idle
    /\ post_out' = anthropic_post(http.status, http.body)
    /\ UNCHANGED <<http, streamVars, fetch_out, trackerVars, sharedVars>>

GroqPost ==
    /\ http.provider = "groq"
    /\ post_out = Idle
    /\ post_out' = groq_post(http.status, http.body)
    /\ UNCHANGED <<http, streamVars, fetch_out, trackerVars, sharedVars>>

NextPost ==
    \/ AnthropicPost
    \/ GroqPost

SpecPost == InitPost /\ [][NextPost]_vars

----------------------------------------------------------------------------
(* Claims about post(), checked under SpecPost *)

Classified == post_out # Idle

\* C6 (as claimed): in AnthropicProvider::post and in GroqProvider::post a
\* status-400 response whose error.message holds "too long" or "too many" in
\* any case is ContextLengthExceeded, and every other status-400 response
\* (another message, no error object, an unparsable body) is RequestFailed.
C6_BadRequestBothBackends ==
    (Classified /\ http.status = BAD_REQUEST) =>
        /\ post_out.k = "Err"
        /\ post_out.kind =
              IF IsSome(http.body) /\ http.body.v \in ContextLengthBodies
              THEN "ContextLengthExceeded" ELSE "RequestFailed"

\* C6 (amended): AnthropicProvider::post classifies a status-400 response as
\* claimed; GroqProvider::post classifies every status-400 response as
\* RequestFailed, whatever its message.
C6_BadRequestPerBackend ==
    (Classified /\ http.status = BAD_REQUEST) =>
        /\ post_out.k = "Err"
        /\ http.provider = "anthropic" =>
              post_out.kind =
                  IF IsSome(http.body) /\ http.body.v \in ContextLengthBodies
                  THEN "ContextLengthExceeded" ELSE "RequestFailed"
        /\ http.provider = "groq" => post_out.kind = "RequestFailed"

\* C6 witness: Anthropic's post has classified a 400 whose message holds
\* "Too Many" in mixed case as ContextLengthExceeded.
C6_Witness ==
    /\ http = [provider |-> "anthropic", status |-> BAD_REQUEST,
               body |-> Some(BodyTooManyMixedCase)]
    /\ Classified
    /\ post_out.kind = "ContextLengthExceeded"

\* C7: in both post() functions 401 and 403 give Authentication, 429 gives
\* RateLimitExceeded, 500 and 503 give ServerError, whatever the body is;
\* 200 with an unparsable body gives RequestFailed; and the outcome is
\* either the parsed body (only for 200) or one ErrorKind of the closed set.
C7_StatusDecidesKind ==
    Classified =>
        /\ http.status \in {UNAUTHORIZED, FORBIDDEN} =>
              post_out.k = "Err" /\ post_out.kind = "Authentication"
        /\ http.status = TOO_MANY_REQUESTS =>
              post_out.k = "Err" /\ post_out.kind = "RateLimitExceeded"
        /\ http.status \in {INTERNAL_SERVER_ERROR, SERVICE_UNAVAILABLE} =>
              post_out.k = "Err" /\ post_out.kind = "ServerError"
        /\ (http.status = OK /\ IsNone(http.body)) =>
              post_out.k = "Err" /\ post_out.kind = "RequestFailed"
        /\ \/ /\ post_out.k = "Ok"
              /\ http.status = OK
              /\ http.body = Some(post_out.v)
           \/ /\ post_out.k = "Err"
              /\ post_out.kind \in ErrorKinds

\* C7 witness: Groq's post has classified a 403 whose body carries an error
\* object with a "too long" message as Authentication.
C7_Witness ==
    /\ http = [provider |-> "groq", status |-> FORBIDDEN,
               body |-> Some(BodyPromptTooLong)]
    /\ Classified
    /\ post_out.kind = "Authentication"

----------------------------------------------------------------------------
(* AnthropicProvider::complete and ::stream *)

\* Frames the decoder is asked for on one stream
MaxFrames == 4

\* HeaderMap::insert: the value replaces whatever the name held
HeaderInsert(headers, name, value) ==
    [n \in DOMAIN headers \cup {name} |-> IF n = name THEN value ELSE headers[n]]

NoHeaders == [n \in {} |-> ""]

Claude37SonnetPrefix == <<"c", "l", "a", "u", "d", "e", "-", "3", "-", "7", "-", "s", "o", "n", "n", "e", "t", "-">>

\* The headers complete() and stream() attach to the request
request_headers(model_name, is_thinking_enabled) ==
    LET h1 == HeaderInsert(NoHeaders, "x-api-key", "api_key")
        h2 == HeaderInsert(h1, "anthropic-version", "2023-06-01")
        h3 == IF starts_with(model_name, Claude37SonnetPrefix) /\ is_thinking_enabled
              THEN HeaderInsert(h2, "anthropic-beta", "output-128k-2025-02-19")
              ELSE h2
        h4 == IF starts_with(model_name, Claude37SonnetPrefix)
              THEN HeaderInsert(h3, "anthropic-beta", "token-efficient-tools-2025-02-19")
              ELSE h3
    IN  h4

\* The request sent and the value returned by one call
Called(headers, stream_param, ret) ==
    [k |-> "called", headers |-> headers, stream |-> stream_param, ret |-> ret]

\* formats::anthropic::response_to_message and get_usage on a response post()
\* accepted: the canonical message and usage of that response
response_to_message(response) == [message_of |-> response]

\* complete(): post(), then the translation of the accepted response
complete(model_name, is_thinking_enabled, status, payload) ==
    LET headers == request_headers(model_name, is_thinking_enabled)
        response == anthropic_post(status, payload)
    IN  IF response.k = "Err" THEN Called(headers, FALSE, response)
        ELSE Called(headers, FALSE, Ok(response_to_message(response.v)))

\* stream() up to the value it returns: any status that is not a success is
\* RequestFailed, a success hands the body to the line decoder
stream(model_name, is_thinking_enabled, status, payload) ==
    LET headers == request_headers(model_name, is_thinking_enabled) IN
    IF ~is_success(status)
    THEN Called(headers, TRUE,
                Err("RequestFailed",
                    Format("Streaming request failed with status: {}. Error: {}",
                           <<status, payload>>)))
    ELSE Called(headers, TRUE, Ok("MessageStream"))

\* What the frame decoder (response_to_streaming_message) gives when asked:
\* a decoded (message, usage) item, a decode failure, or the end of the stream
Frames == {"f1", "f2"}

DecoderEvents ==
    [k : {"item"}, v : Frames] \cup {[k |-> "error"], [k |-> "end"]}

\* One turn of the stream's loop that goes on after a decode failure
stream_next_continues(event) ==
    CASE event.k = "item" -> [state |-> "open", yield |-> Some(Ok(event.v))]
      [] event.k = "error" ->
            [state |-> "open",
             yield |-> Some(Err("RequestFailed", Format("Stream decode error: {}", <<event>>)))]
      [] OTHER -> [state |-> "done", yield |-> None]

\* One turn of the stream's loop on what the decoder gave: the stream's next
\* state and the value the consumer is given, if any
stream_next(event) ==
    CASE event.k = "item" -> [state |-> "open", yield |-> Some(Ok(event.v))]
      [] event.k = "error" ->
            [state |-> "failed",
             yield |-> Some(Err("RequestFailed", Format("Stream decode error: {}", <<event>>)))]
      [] OTHER -> [state |-> "done", yield |-> None]

ModelNames ==
    {<<"c", "l", "a", "u", "d", "e", "-", "3", "-", "7", "-", "s", "o", "n", "n", "e", "t", "-", "l", "a", "t", "e", "s", "t">>,
     <<"c", "l", "a", "u", "d", "e", "-", "3", "-", "7", "-", "s", "o", "n", "n", "e", "t">>,
     <<"c", "l", "a", "u", "d", "e", "-", "3", "-", "5", "-", "s", "o", "n", "n", "e", "t", "-", "l", "a", "t", "e", "s", "t">>}

InitAnthropic ==
    /\ TrackerNew
    /\ http \in [provider : {"anthropic"}, status : Statuses, body : PostBodies]
    /\ cfg \in [model_name : ModelNames, thinking : BOOLEAN]
    /\ post_out = Idle
    /\ complete_out = Idle
    /\ stream_out = Idle
    /\ stream_state = "none"
    /\ decoded = <<>>
    /\ received = <<>>
    /\ fetch_out = Idle

AnthropicComplete ==
    /\ complete_out = Idle
    /\ complete_out' = complete(cfg.model_name, cfg.thinking, http.status, http.body)
    /\ UNCHANGED <<http, post_out, cfg, stream_out, stream_state, decoded,
                   received, fetch_out, trackerVars, sharedVars>>

AnthropicStream ==
    /\ stream_out = Idle
    /\ stream_out' = stream(cfg.model_name, cfg.thinking, http.status, http.body)
    /\ stream_state' = IF stream_out'.ret.k = "Ok" THEN "open" ELSE "none"
    /\ UNCHANGED <<http, post_out, cfg, complete_out, decoded, received,
                   fetch_out, trackerVars, sharedVars>>

\* The consumer polls the open stream: the loop asks the decoder for a frame
StreamNext ==
    /\ stream_state = "open"
    /\ Len(decoded) < MaxFrames
    /\ \E event \in DecoderEvents :
        LET r == stream_next(event) IN
        /\ decoded' = Append(decoded, event)
        /\ stream_state' = r.state
        /\ received' = IF IsSome(r.yield) THEN Append(received, r.yield.v)
                       ELSE received
    /\ UNCHANGED <<http, post_out, cfg, complete_out, stream_out, fetch_out,
                   trackerVars, sharedVars>>

\* The consumer polls after the error was yielded: the stream ends, and the
\* decoder is not asked again
StreamEndAfterError ==
    /\ stream_state = "failed"
    /\ stream_state' = "done"
    /\ UNCHANGED <<http, post_out, cfg, complete_out, stream_out, decoded,
                   received, fetch_out, trackerVars, sharedVars>>

NextAnthropic ==
    \/ AnthropicComplete
    \/ AnthropicStream
    \/ StreamNext
    \/ StreamEndAfterError

SpecAnthropic == InitAnthropic /\ [][NextAnthropic]_vars

----------------------------------------------------------------------------
(* Claims about complete() and stream(), checked under SpecAnthropic *)

\* C8 (as claimed): for a response whose status is not 2xx, stream returns
\* an error of the kind complete returns for the same status and body.
C8_StreamClassifiesLikeComplete ==
    (complete_out # Idle /\ stream_out # Idle /\ ~is_success(http.status)) =>
        /\ complete_out.ret.k = "Err"
        /\ stream_out.ret.k = "Err"
        /\ stream_out.ret.kind = complete_out.ret.kind

\* The items among the first n decoder events
ItemsOnly(n) == \A i \in 1..n : decoded[i].k = "item"

\* C9: the consumer is given the decoder's items, in the decoder's order, as
\* they come; a decode failure after N items gives the consumer those N
\* items, then one RequestFailed "Stream decode error", and nothing after it;
\* the end of the decoder's items after N items ends the stream after those
\* N items.  The decoder is never asked again after a failure or the end.
C9_StreamYieldsInOrder ==
    LET n == Len(decoded) IN
    /\ ItemsOnly(n - 1)
    /\ Len(received) = IF n > 0 /\ decoded[n].k = "end" THEN n - 1 ELSE n
    /\ \A i \in 1..Len(received) :
          IF decoded[i].k = "item" THEN received[i] = Ok(decoded[i].v)
          ELSE /\ i = Len(received)
               /\ received[i].k = "Err"
               /\ received[i].kind = "RequestFailed"
               /\ received[i].msg.fmt = "Stream decode error: {}"
    /\ stream_state = "failed" <=> (n > 0 /\ decoded[n].k = "error" /\ stream_state # "done")
    /\ stream_state = "done" => (n > 0 /\ decoded[n].k \in {"error", "end"})
    /\ (n > 0 /\ decoded[n].k = "end") => stream_state = "done"

\* C9 witness: two items, then a decode failure, and the stream has ended:
\* the consumer holds f2, f1 and the error, in that order.
C9_Witness ==
    /\ stream_state = "done"
    /\ decoded = <<[k |-> "item", v |-> "f2"], [k |-> "item", v |-> "f1"],
                   [k |-> "error"]>>
    /\ Len(received) = 3
    /\ received[1] = Ok("f2") /\ received[2] = Ok("f1")
    /\ received[3].k = "Err"

----------------------------------------------------------------------------
(* fetch_supported_models_async of AnthropicProvider and GroqProvider *)

\* String's Ord: byte-wise lexicographic order
RECURSIVE StrLess(_, _)
StrLess(a, b) ==
    IF Len(b) = 0 THEN FALSE
    ELSE IF Len(a) = 0 THEN TRUE
    ELSE IF CharCode(Head(a)) # CharCode(Head(b))
         THEN CharCode(Head(a)) < CharCode(Head(b))
    ELSE StrLess(Tail(a), Tail(b))

\* Insert x into the sorted sequence seq, after the elements equal to it
RECURSIVE InsertSorted(_, _)
InsertSorted(x, seq) ==
    IF Len(seq) = 0 THEN <<x>>
    ELSE IF StrLess(x, Head(seq)) THEN <<x>> \o seq
    ELSE <<Head(seq)>> \o InsertSorted(x, Tail(seq))

\* Vec<String>::sort: ascending, equal elements kept
RECURSIVE sort(_)
sort(seq) ==
    IF Len(seq) = 0 THEN <<>>
    ELSE InsertSorted(seq[Len(seq)], sort(SubSeq(seq, 1, Len(seq) - 1)))

\* Iterator::filter_map(..).collect(), given the Option the closure returned
\* for each element: the values of the Somes, in order
RECURSIVE FilterMap(_)
FilterMap(opts) ==
    IF Len(opts) = 0 THEN <<>>
    ELSE (IF IsSome(Head(opts)) THEN <<Head(opts).v>> ELSE <<>>)
         \o FilterMap(Tail(opts))

\* A listing element's id for Anthropic: the string itself, or an object's
\* string "id"
anthropic_model_id(m) ==
    IF IsSome(as_str(m)) THEN as_str(m)
    ELSE IF IsSome(as_object(m)) THEN GetStr(m, "id")
    ELSE None

\* A listing element's id for Groq: an object's string "id"
groq_model_id(m) == GetStr(m, "id")

\* The reqwest::Error of response.json() on a body that is not JSON, by its
\* Display: the decode failure and serde_json's account of it
reqwest_decode_error ==
    Format("error decoding response body: {}", <<"serde_json::Error">>)

\* The ? on a reqwest::Error: its conversion into a ProviderError, a generic
\* transport/parse failure carrying the error's text
from_reqwest_error(error) == Err("RequestFailed", error)

\* AnthropicProvider::fetch_supported_models_async, from the response's
\* status (which it does not read) and its body parsed as JSON
anthropic_fetch(status, json) ==
    IF IsNone(json) THEN from_reqwest_error(reqwest_decode_error)
    ELSE LET arr == GetArray(json.v, "models") IN
         IF IsNone(arr) THEN Ok(None)
         ELSE Ok(Some(sort(FilterMap([i \in 1..Len(arr.v) |-> anthropic_model_id(arr.v[i])]))))

\* The literal of groq.rs:190, "Missing or invalid" .. "field in response"
\* with data between two grave accents, character by character
MissingDataField ==
    <<"M", "i", "s", "s", "i", "n", "g", " ", "o", "r", " ", "i", "n",
      "v", "a", "l", "i", "d", " ", Backtick, "d", "a", "t", "a",
      Backtick, " ", "f", "i", "e", "l", "d", " ", "i", "n", " ", "r",
      "e", "s", "p", "o", "n", "s", "e">>

\* GroqProvider::fetch_supported_models_async
groq_fetch(status, payload) ==
    IF IsNone(payload)
    THEN Err("RequestFailed", Format("Response body is not valid JSON", <<>>))
    ELSE LET err_obj == Get(payload.v, "error") IN
         IF IsSome(err_obj)
         THEN LET msg == GetStr(err_obj.v, "message") IN
              Err("Authentication",
                  Format("{}", <<IF IsSome(msg) THEN msg.v ELSE <<"u", "n", "k", "n", "o", "w", "n", " ", "e", "r", "r", "o", "r">>>>))
         ELSE IF status = OK
         THEN LET data == GetArray(payload.v, "data") IN
              IF IsNone(data)
              THEN Err("UsageError", Format("{}", <<MissingDataField>>))
              ELSE Ok(Some(sort(FilterMap([i \in 1..Len(data.v) |-> groq_model_id(data.v[i])]))))
         ELSE Err("RequestFailed",
                  Format("Groq API returned error status: {}. Payload: {:?}",
                         <<status, payload.v>>))

\* The listings fetch_supported_models_async is examined on
IdClaude == <<"c", "l", "a", "u", "d", "e", "-", "3", "-", "5">>

IdGemma == <<"g", "e", "m", "m", "a", "2", "-", "9", "b">>

IdZephyr == <<"Z", "e", "p", "h", "y", "r">>

IdObj(id) == JObj("id" :> JStr(id))

Listings ==
    {JStr(<<"n", "o", "n", "e">>),
     JArr(<<>>),
     JArr(<<JStr(IdGemma), JStr(IdClaude), JStr(IdGemma), JStr(IdZephyr)>>),
     JArr(<<IdObj(IdGemma), IdObj(IdClaude), IdObj(IdZephyr), IdObj(IdClaude)>>),
     JArr(<<IdObj(IdGemma), JStr(IdClaude), JObj("name" :> JStr(IdZephyr)),
            JNum(7), JObj("id" :> JNum(7))>>)}

ErrorObjects ==
    {JObj("message" :> JStr(<<"i", "n", "v", "a", "l", "i", "d", " ", "a", "p", "i", " ", "k", "e", "y">>)),
     JObj("type" :> JStr(<<"a", "u", "t", "h", "e", "n", "t", "i", "c", "a", "t", "i", "o", "n", "_", "e", "r", "r", "o", "r">>))}

\* The members a listing response is made of: an error object or none, a
\* list under "models", under "data" or under neither, and a member that is
\* neither
ErrorMembers == {NoFields} \cup {"error" :> e : e \in ErrorObjects}

ListMembers ==
    {NoFields} \cup {key :> l : key \in {"models", "data"}, l \in Listings}

ListingBodies ==
    {None} \cup
    {Some(JObj(e @@ l @@ ("object" :> JStr(<<"l", "i", "s", "t">>)))) :
        e \in ErrorMembers, l \in ListMembers}

FetchStatuses == {OK, UNAUTHORIZED, 404, INTERNAL_SERVER_ERROR}

\* The key each backend reads the listing from
ListKey(provider) == IF provider = "anthropic" THEN "models" ELSE "data"

InitFetch ==
    /\ TrackerNew
    /\ http \in [provider : Providers, status : FetchStatuses, body : ListingBodies]
    /\ post_out = Idle
    /\ StreamIdle
    /\ fetch_out = Idle

AnthropicFetch ==
    /\ http.provider = "anthropic"
    /\ fetch_out = Idle
    /\ fetch_out' = anthropic_fetch(http.status, http.body)
    /\ UNCHANGED <<http, post_out, streamVars, trackerVars, sharedVars>>

GroqFetch ==
    /\ http.provider = "groq"
    /\ fetch_out = Idle
    /\ fetch_out' = groq_fetch(http.status, http.body)
    /\ UNCHANGED <<http, post_out, streamVars, trackerVars, sharedVars>>

NextFetch ==
    \/ AnthropicFetch
    \/ GroqFetch

SpecFetch == InitFetch /\ [][NextFetch]_vars

----------------------------------------------------------------------------
(* Claims about fetch_supported_models_async, checked under SpecFetch *)

Fetched == fetch_out # Idle

\* C10 (as claimed): for Anthropic (list key "models") and Groq (list key
\* "data"), a response that is valid JSON, has no error object and lacks the
\* list key makes the call return Ok(None), not an error.
C10_MissingKeyIsNoData ==
    ( /\ Fetched
      /\ IsSome(http.body)
      /\ "error" \notin DOMAIN http.body.v.o
      /\ ListKey(http.provider) \notin DOMAIN http.body.v.o )
    => fetch_out = Ok(None)

\* Whether the response's body is valid JSON with an "error" member
HasErrorObject == IsSome(http.body) /\ "error" \in DOMAIN http.body.v.o

\* C11 (as claimed): for Anthropic and for Groq, a response that is valid
\* JSON and embeds an error object makes the call return an Authentication
\* error, whatever the status is and whether or not the list key is there.
C11_ErrorObjectIsAuthentication ==
    (Fetched /\ HasErrorObject) =>
        /\ fetch_out.k = "Err"
        /\ fetch_out.kind = "Authentication"

\* The list a fetch returned, when it returned one
ReturnedList == fetch_out.k = "Ok" /\ IsSome(fetch_out.v)

\* The ids of the elements of the listing the backend read: strings and the
\* string "id" of objects for Anthropic, the string "id" of objects for Groq
ListingIds ==
    LET arr == Get(http.body.v, ListKey(http.provider)).v.a IN
    {id \in {IF http.provider = "anthropic" THEN anthropic_model_id(arr[i])
             ELSE groq_model_id(arr[i]) : i \in 1..Len(arr)} : IsSome(id)}

\* C12 (as claimed): a model list returned by fetch_supported_models_async
\* (Anthropic or Groq) is sorted ascending, holds no id twice, and holds
\* exactly the ids of the listing's elements, also when the listing repeats
\* an id.
C12_SortedNoDuplicates ==
    ReturnedList =>
        LET models == fetch_out.v.v IN
        /\ \A i, j \in 1..Len(models) : i < j => StrLess(models[i], models[j])
        /\ {Some(models[i]) : i \in 1..Len(models)} = ListingIds

----------------------------------------------------------------------------
(* SharedTokenTracker: concurrent turns on one Arc<RwLock<TokenTracker>> *)

\* Concurrent turns sharing the tracker
MaxTurns == 3

Turns == 1..MaxTurns

\* The usage each turn reports
TurnUsages ==
    {[input_tokens |-> Some(1), output_tokens |-> None, total_tokens |-> Some(40)],
     [input_tokens |-> None, output_tokens |-> Some(1), total_tokens |-> Some(50)],
     [input_tokens |-> Some(1), output_tokens |-> None, total_tokens |-> None]}

\* The limit set before the turns start
SharedLimits == {50, 100}

\* create_shared_tracker(), then set_context_limit under the write lock,
\* before any turn starts
create_shared_tracker(limit) == set_context_limit(new, limit)

\* A turn's position: "update" and "check" are the two calls it has yet to
\* make, each under its own write guard
TurnStart(usage) == [pc |-> "update", usage |-> usage, ret |-> None]

InitShared ==
    /\ \E limit \in SharedLimits :
        /\ tracker = create_shared_tracker(limit)
        /\ last = [op |-> "set_context_limit", ret |-> None, pre |-> new,
                   pre_fired |-> {}, prev |-> "other"]
    /\ hist = HistInit
    /\ fired = {}
    /\ fired_before = {}
    /\ ProviderIdle
    /\ lock = None
    /\ turns \in [Turns -> {TurnStart(u) : u \in TurnUsages}]
    /\ updated = <<>>

\* RwLock::write().await: granted when no guard is held
WriteLock(t) ==
    /\ turns[t].pc \in {"update", "check"}
    /\ lock = None
    /\ lock' = Some(t)
    /\ UNCHANGED <<turns, updated, trackerVars, providerVars>>

\* tracker.write().await.update_usage(&usage)
TurnUpdateUsage(t) ==
    /\ lock = Some(t)
    /\ turns[t].pc = "update"
    /\ tracker' = update_usage(tracker, turns[t].usage)
    /\ last' = Call("update_usage", None)
    /\ turns' = [turns EXCEPT ![t].pc = "updated"]
    /\ updated' = Append(updated, t)
    /\ UNCHANGED <<lock, hist, fired, fired_before, providerVars>>

\* tracker.write().await.check_warning()
TurnCheckWarning(t) ==
    LET r == check_warning(tracker) IN
    /\ lock = Some(t)
    /\ turns[t].pc = "check"
    /\ tracker' = r.t
    /\ last' = Call("check_warning", r.ret)
    /\ fired' = fired \cup Threshold(r.ret)
    /\ turns' = [turns EXCEPT ![t].pc = "checked", ![t].ret = r.ret]
    /\ UNCHANGED <<lock, updated, hist, fired_before, providerVars>>

\* The write guard is dropped at the end of the statement
Unlock(t) ==
    /\ lock = Some(t)
    /\ turns[t].pc \in {"updated", "checked"}
    /\ lock' = None
    /\ turns' = [turns EXCEPT ![t].pc = IF @ = "updated" THEN "check" ELSE "done"]
    /\ UNCHANGED <<updated, trackerVars, providerVars>>

NextShared ==
    \E t \in Turns :
        \/ WriteLock(t)
        \/ TurnUpdateUsage(t)
        \/ TurnCheckWarning(t)
        \/ Unlock(t)

SpecShared == InitShared /\ [][NextShared]_vars

----------------------------------------------------------------------------
(* Claims about the shared tracker, checked under SpecShared *)

\* The turns whose update_usage has been applied
Applied == {t \in Turns : turns[t].pc # "update"}

AllDone == \A t \in Turns : turns[t].pc = "done"

\* The sum of field f over the turns of S that reported it
RECURSIVE FieldSum(_, _)
FieldSum(f, S) ==
    IF S = {} THEN 0
    ELSE LET t == CHOOSE x \in S : TRUE IN
         (IF IsSome(turns[t].usage[f]) THEN turns[t].usage[f].v ELSE 0)
         + FieldSum(f, S \ {t})

\* C13: whatever the order in which the turns' update_usage calls get the
\* write lock, current_usage is at every moment the field-wise sum of the
\* usages of the calls applied so far (a field is unknown exactly when no
\* applied call reported it): no update is lost, and once every call was
\* applied the usage is the sum over all turns, the same in every
\* interleaving.
C13_OrderIndependentSum ==
    \A f \in UsageFields :
        LET reported == {t \in Applied : IsSome(turns[t].usage[f])} IN
        tracker.current_usage[f] =
            IF reported = {} THEN None ELSE Some(FieldSum(f, reported))

\* C13 witness: all turns are done, their updates were applied in the order
\* 3, 1, 2, and the totals 40, 50 and 40 added up to 130.
C13_Witness ==
    /\ AllDone
    /\ updated = <<3, 1, 2>>
    /\ turns[1].usage.total_tokens = Some(50)
    /\ turns[2].usage.total_tokens = Some(40)
    /\ turns[3].usage.total_tokens = Some(40)
    /\ tracker.current_usage.total_tokens = Some(130)
    /\ tracker.current_usage.input_tokens = Some(2)
    /\ tracker.current_usage.output_tokens = Some(1)

\* The turns a threshold's message was returned to
WarnedTurns(th) == {t \in Turns : th \in Threshold(turns[t].ret)}

\* C14: with update_usage and check_warning taken as two separate write-lock
\* acquisitions by each turn, in every interleaving the 80% message and the
\* 90% message are each returned to at most one turn, and once all turns are
\* done with a final usage of 90% of the limit or more, the 90% message has
\* been returned to exactly one turn.
C14_NoDuplicateNoMissedWarning ==
    /\ \A th \in {80, 90} : Cardinality(WarnedTurns(th)) <= 1
    /\ ( /\ AllDone
         /\ Known(tracker)
         /\ 100 * Used(tracker) >= 90 * Limit(tracker) )
       => Cardinality(WarnedTurns(90)) = 1

\* C14 witness: all turns are done at 130% of the limit; the turn that
\* updated first checked last and was returned nothing, the 90% message and
\* the 80% message went to the two other turns.
C14_Witness ==
    /\ AllDone
    /\ Limit(tracker) = 100 /\ Used(tracker) = 130
    /\ updated[1] = 1
    /\ turns[1].ret = None
    /\ WarnedTurns(90) = {2}
    /\ WarnedTurns(80) = {3}

----------------------------------------------------------------------------
(* Claims about the request headers, checked under SpecAnthropic *)

\* The beta flags a request carries: the values of its anthropic-beta header
BetaFlags(headers) ==
    IF "anthropic-beta" \in DOMAIN headers THEN {headers["anthropic-beta"]} ELSE {}

\* The beta flags the claim gives to a model name and a toggle
ClaimedBetaFlags(model_name, is_thinking_enabled) ==
    IF ~starts_with(model_name, Claude37SonnetPrefix) THEN {}
    ELSE IF is_thinking_enabled
    THEN {"output-128k-2025-02-19", "token-efficient-tools-2025-02-19"}
    ELSE {"token-efficient-tools-2025-02-19"}

\* C15 (as claimed): the request complete() or stream() sends carries, for
\* a model name starting with "claude-3-7-sonnet-", the flag
\* token-efficient-tools-2025-02-19, together with output-128k-2025-02-19
\* when CLAUDE_THINKING_ENABLED is set; for any other model name it carries
\* no beta flag; complete and stream carry the same flags.
C15_BetaFlagsByPrefixAndToggle ==
    /\ complete_out # Idle =>
          BetaFlags(complete_out.headers) =
              ClaimedBetaFlags(cfg.model_name, cfg.thinking)
    /\ stream_out # Idle =>
          BetaFlags(stream_out.headers) =
              ClaimedBetaFlags(cfg.model_name, cfg.thinking)
    /\ (complete_out # Idle /\ stream_out # Idle) =>
          BetaFlags(complete_out.headers) = BetaFlags(stream_out.headers)

====
